---- MODULE Spec2Model ----
(***************************************************************************)
(* A model of the `options` crate (src/src/lib.rs): Options, a collection  *)
(* of named parameters, HashMap<Name, Value> with Value(Box<dyn Any>).     *)
(*                                                                         *)
(* The hash map is the set of its entries, an entry being a record         *)
(* [name, value]; a Value is the boxed payload together with the TypeId    *)
(* that dyn Any reports for it.  Option<X> is a sequence: <<>> is None and *)
(* <<x>> is Some(x).  A typed payload is written as its text, so that the  *)
(* same text under two types ("Hi, there!" as &str and as String) is two   *)
(* different values.                                                       *)
(***************************************************************************)
EXTENDS Naturals, Sequences, FiniteSets

VARIABLES options, last, iterator, passed

vars == <<options, last, iterator, passed>>

(* The bound of the model: how many names the calls use. *)
NumNames == 3

NameList == <<"a", "b", "c", "d", "e", "z">>

Names == {NameList[i] : i \in 1..NumNames}

(* The types the calls use: an integer, and a string both borrowed and     *)
(* owned.                                                                  *)
TypeIds == {"i32", "&str", "String"}

(* The payloads the calls pass, per type (from tests::setup and from the   *)
(* tests that overwrite its values).  The same text is a &str and a String.*)
Data(T) ==
    CASE T = "i32" -> {"42", "69"}
      [] T = "&str" -> {"Hi, there!"}
      [] T = "String" -> {"Hi, there!"}

AllData == UNION {Data(T) : T \in TypeIds}

None == <<>>
Some(x) == <<x>>

(* Value(Box::new(value)) for value: T *)
Value_new(T, x) == [type_id |-> T, data |-> x]

Entry(name, value) == [name |-> name, value |-> value]

(* HashMap::get / HashMap::get_mut: the entry stored under name, if any.   *)
(* (Variant: a lookup that makes up a default entry for a missing name.)   *)
HashMap_get_or_default(map, name) ==
    IF \E e \in map : e.name = name
    THEN Some(CHOOSE e \in map : e.name = name)
    ELSE Some(Entry(name, Value_new("i32", "42")))

HashMap_get(map, name) ==
    IF \E e \in map : e.name = name
    THEN Some(CHOOSE e \in map : e.name = name)
    ELSE None

(* <dyn Any>::downcast_ref::<T> / downcast_mut::<T>: the payload when the  *)
(* recorded TypeId is T, and nothing otherwise.                            *)
(* (Variant: a cast that does not look at the TypeId.)                     *)
downcast_unchecked(value, T) == Some(value.data)

downcast(value, T) == IF value.type_id = T THEN Some(value.data) ELSE None

(* Value::get: downcast_ref::<T>().cloned(); the clone has the payload.    *)
Value_get(value, T) == downcast(value, T)

(* Value::get_ref: the borrow is seen through the payload it points to.    *)
Value_get_ref(value, T) == downcast(value, T)

(* Value::get_mut on the cell of entry e: the place of the payload, which  *)
(* is the entry, when the type matches.                                    *)
Value_get_mut(e, T) == IF downcast(e.value, T) = None THEN None ELSE Some(e)

(* `*reference = x` through the &mut T that get_mut returned for entry e:  *)
(* the payload changes and the type stays.                                 *)
(* (Variant: the write lands in a copy and the map keeps the old payload.) *)
Write_to_copy(map, e, x) == map

Write(map, e, x) ==
    (map \ {e}) \cup {Entry(e.name, Value_new(e.value.type_id, x))}

(* Value::set on the cell of entry e: self.0 = Box::new(value).            *)
(* (Variant: a set that only overwrites a cell of the same type.)          *)
Value_set_same_type(map, e, T, x) ==
    IF e.value.type_id = T
    THEN (map \ {e}) \cup {Entry(e.name, Value_new(T, x))}
    ELSE map

Value_set(map, e, T, x) == (map \ {e}) \cup {Entry(e.name, Value_new(T, x))}

(* Options::get: self.0.get(name).and_then(|value| value.get())           *)
Options_get(opts, name, T) ==
    LET found == HashMap_get(opts, name)
    IN IF found = None THEN None ELSE Value_get(found[1].value, T)

(* Options::get_ref *)
Options_get_ref(opts, name, T) ==
    LET found == HashMap_get(opts, name)
    IN IF found = None THEN None ELSE Value_get_ref(found[1].value, T)

(* Options::get_mut *)
Options_get_mut(opts, name, T) ==
    LET found == HashMap_get(opts, name)
    IN IF found = None THEN None ELSE Value_get_mut(found[1], T)

(* Options::set: self.0.insert(name.to_string(), Value(Box::new(value))).  *)
(* insert puts the new entry in the place of the one of the same name.     *)
(* (Variants: an insert that keeps an existing entry; one that keeps it    *)
(* beside the new one; one that replaces the whole map.)                   *)
Options_set_keep(opts, name, T, x) ==
    IF \E e \in opts : e.name = name
    THEN opts
    ELSE opts \cup {Entry(name, Value_new(T, x))}

Options_set_append(opts, name, T, x) ==
    opts \cup {Entry(name, Value_new(T, x))}

Options_set_only(opts, name, T, x) == {Entry(name, Value_new(T, x))}

Options_set(opts, name, T, x) ==
    {e \in opts : e.name # name} \cup {Entry(name, Value_new(T, x))}

(* Options::has: self.0.contains_key(name).                                *)
(* (Variant: a has that asks for an i32 under the name.)                   *)
Options_has_i32(opts, name) == Options_get_ref(opts, name, "i32") # None

Options_has(opts, name) == \E e \in opts : e.name = name

(* The names of the entries (what Options::names maps the entries to).     *)
first(e) == e.name

Keys(opts) == {first(e) : e \in opts}

(* The record of the most recent call: its arguments and what it returned. *)
(* dropped is what HashMap::insert returned and set let go of; repeat says *)
(* that the call before it was the same call.                              *)
Call(op, name, T, x, ret, dropped, repeat) ==
    [op |-> op, name |-> name, kind |-> T, data |-> x, ret |-> ret,
     dropped |-> dropped, repeat |-> repeat]

NoCall == Call("new", "", "", "", None, None, FALSE)

SameCall(op, name, T) == last.op = op /\ last.name = name /\ last.kind = T

(* Parameters, ParametersMut, Names: the entries not yet yielded and the   *)
(* entries yielded so far, each as it was when yielded (Names hands out    *)
(* first of each).  body is what the loop over ParametersMut does to each  *)
(* value; names0 is the key set when the iterator was made.                *)
Iterator(kind, state, rest, yielded, body, names0) ==
    [kind |-> kind, state |-> state, rest |-> rest, yielded |-> yielded,
     body |-> body, names0 |-> names0]

NoIterator == Iterator("none", "done", {}, <<>>, None, {})

(* The loop bodies: value.set(x) for x: T, as in tests::iter_mut.          *)
Bodies == {[kind |-> T, data |-> x] : T \in TypeIds, x \in AllData}

TypedBodies == {b \in Bodies : b.data \in Data(b.kind)}

(* Options::new *)
Init ==
    /\ options = {}
    /\ last = NoCall
    /\ iterator = NoIterator
    /\ passed = {}

(* An iterator borrows the store until it is dropped: no other call on the *)
(* store while one is held.                                                *)
Free == iterator.kind = "none"

(* Options::get.  (Get_take is a variant that takes the value out of the   *)
(* map when it returns it.)                                                *)
Get_take(name, T) ==
    /\ Free
    /\ last' = Call("get", name, T, "", Options_get(options, name, T), None,
                    SameCall("get", name, T))
    /\ options' = IF Options_get(options, name, T) = None
                  THEN options
                  ELSE {e \in options : e.name # name}
    /\ iterator' = NoIterator
    /\ UNCHANGED passed

Get(name, T) ==
    /\ Free
    /\ last' = Call("get", name, T, "", Options_get(options, name, T), None,
                    SameCall("get", name, T))
    /\ iterator' = NoIterator
    /\ UNCHANGED <<options, passed>>

GetRef(name, T) ==
    /\ Free
    /\ last' = Call("get_ref", name, T, "", Options_get_ref(options, name, T),
                    None, SameCall("get_ref", name, T))
    /\ iterator' = NoIterator
    /\ UNCHANGED <<options, passed>>

(* `*options.get_mut::<T>(name)? = x`: the write happens when a reference  *)
(* came back.                                                              *)
GetMut(name, T, x) ==
    /\ Free
    /\ LET r == Options_get_mut(options, name, T)
       IN /\ options' = IF r = None THEN options ELSE Write(options, r[1], x)
          /\ last' = Call("get_mut", name, T, x,
                          IF r = None THEN None ELSE Some(r[1].value.data),
                          None, FALSE)
    /\ iterator' = NoIterator
    /\ UNCHANGED passed

Set(name, T, x) ==
    /\ Free
    /\ options' = Options_set(options, name, T, x)
    /\ last' = Call("set", name, T, x, None,
                    IF HashMap_get(options, name) = None THEN None
                    ELSE Some(HashMap_get(options, name)[1].value),
                    FALSE)
    /\ passed' = passed \cup {name}
    /\ iterator' = NoIterator

Has(name) ==
    /\ Free
    /\ last' = Call("has", name, "", "",
                    Some(IF Options_has(options, name) THEN "true" ELSE "false"),
                    None, FALSE)
    /\ iterator' = NoIterator
    /\ UNCHANGED <<options, passed>>

NewIterator(kind, body) ==
    /\ Free
    /\ iterator' = Iterator(kind, "live", options, <<>>, body, Keys(options))
    /\ last' = Call(kind, "", "", "", None, None, FALSE)
    /\ UNCHANGED <<options, passed>>

(* Options::names *)
NamesCall == NewIterator("names", None)

(* Options::iter *)
Iter == NewIterator("iter", None)

(* Options::iter_mut, with the body of the loop over it *)
IterMut(body) == NewIterator("iter_mut", body)

(* What the loop body does with the value of the entry just yielded.       *)
ApplyBody(map, e, body) ==
    IF body = None THEN map
    ELSE Value_set(map, e, body[1].kind, body[1].data)

(* Iterator::next returning an entry, in the map's own order *)
IterNext ==
    /\ iterator.state = "live"
    /\ \E e \in iterator.rest :
          /\ iterator' = [iterator EXCEPT !.rest = @ \ {e},
                                          !.yielded = Append(@, e)]
          /\ options' = ApplyBody(options, e, iterator.body)
    /\ UNCHANGED <<last, passed>>

(* Iterator::next returning None *)
IterEnd ==
    /\ iterator.state = "live"
    /\ iterator.rest = {}
    /\ iterator' = [iterator EXCEPT !.state = "done"]
    /\ UNCHANGED <<options, last, passed>>

(* The iterator dropped, at its end or before it: the borrow ends *)
IterDrop ==
    /\ iterator.kind # "none"
    /\ iterator' = NoIterator
    /\ UNCHANGED <<options, last, passed>>

Next ==
    \/ \E name \in Names, T \in TypeIds : Get(name, T)
    \/ \E name \in Names, T \in TypeIds : GetRef(name, T)
    \/ \E name \in Names, T \in TypeIds : \E x \in Data(T) : GetMut(name, T, x)
    \/ \E name \in Names, T \in TypeIds : \E x \in Data(T) : Set(name, T, x)
    \/ \E name \in Names : Has(name)
    \/ NamesCall
    \/ Iter
    \/ \E body \in TypedBodies : IterMut(Some(body))
    \/ IterNext
    \/ IterEnd
    \/ IterDrop

Spec == Init /\ [][Next]_vars

(***************************************************************************)
(* What the properties below read off a state.                             *)
(***************************************************************************)
Accessors == {"get", "get_ref", "get_mut"}

Outcomes == {None} \cup {Some(x) : x \in AllData}

(* The names an iterator handed out, in the order it did. *)
YieldedNames == [i \in 1..Len(iterator.yielded) |-> first(iterator.yielded[i])]

Finished(kind) == iterator.kind = kind /\ iterator.state = "done"

(***************************************************************************)
(* C1: immediately after set(n, v) with v of type T, from whatever store   *)
(* the call was made on, get::<T>(n) yields a duplicate equal to v and     *)
(* get_ref::<T>(n) yields a borrow equal to v.                             *)
(***************************************************************************)
C1_SetThenGet ==
    last.op = "set" =>
        /\ Options_get(options, last.name, last.kind) = Some(last.data)
        /\ Options_get_ref(options, last.name, last.kind) = Some(last.data)

C1_Witness ==
    /\ last.op = "set"
    /\ Cardinality(options) >= 2
    /\ Options_get(options, last.name, last.kind) = Some(last.data)

(***************************************************************************)
(* C2: a name that holds a T answers a request for any other type U with   *)
(* absent, from get, get_ref and get_mut alike, although has(n) is true:   *)
(* in the store as it stands (in particular right after set(n, v)), and in *)
(* what an accessor call with a non-matching type returned.                *)
(***************************************************************************)
C2_TypeMismatchAbsent ==
    /\ \A e \in options : \A U \in TypeIds \ {e.value.type_id} :
          /\ Options_get(options, e.name, U) = None
          /\ Options_get_ref(options, e.name, U) = None
          /\ Options_get_mut(options, e.name, U) = None
          /\ Options_has(options, e.name)
    /\ last.op = "set" =>
          \A U \in TypeIds \ {last.kind} :
              /\ Options_get(options, last.name, U) = None
              /\ Options_get_ref(options, last.name, U) = None
              /\ Options_get_mut(options, last.name, U) = None
              /\ Options_has(options, last.name)
    /\ (/\ last.op \in Accessors
        /\ \E e \in options : e.name = last.name /\ e.value.type_id # last.kind)
          => last.ret = None

C2_Witness ==
    /\ last.op = "get"
    /\ last.kind = "String"
    /\ Options_has(options, last.name)
    /\ Options_get(options, last.name, "&str") = Some("Hi, there!")
    /\ last.ret = None

(***************************************************************************)
(* C3: the overwrite law.  After set(n, v2) the store answers get on n     *)
(* with v2, records the type of v2 for n and holds n once; and the store   *)
(* that set(n, v1); set(n, v2) leaves is the store that set(n, v2) alone   *)
(* leaves, whatever the types of v1 and v2 (the step is the call           *)
(* set(n, v1), and v2 ranges over every value that may follow it).         *)
(***************************************************************************)
C3_Overwrite ==
    /\ [](last.op = "set" =>
            /\ Options_get(options, last.name, last.kind) = Some(last.data)
            /\ \A e \in options :
                  e.name = last.name => e.value = Value_new(last.kind, last.data)
            /\ Cardinality({e \in options : e.name = last.name}) = 1)
    /\ [][last'.op = "set" =>
            \A T2 \in TypeIds : \A x2 \in Data(T2) :
                Options_set(options', last'.name, T2, x2)
                    = Options_set(options, last'.name, T2, x2)]_vars

C3_Witness ==
    /\ last.op = "set"
    /\ last.dropped # None
    /\ last.dropped[1].type_id # last.kind
    /\ Options_get(options, last.name, last.kind) = Some(last.data)

(***************************************************************************)
(* C4: has(n) is true exactly when a cell exists for n, whatever its type, *)
(* which is exactly when n was passed to set before; it is false on a new  *)
(* store, and no call makes it false once it is true.                      *)
(***************************************************************************)
C4_Has ==
    /\ [](\A n \in Names :
            /\ Options_has(options, n) <=> HashMap_get(options, n) # None
            /\ Options_has(options, n) <=> n \in passed)
    /\ [](last.op = "has" =>
            (last.ret = Some("true") <=> last.name \in passed))
    /\ [][\A n \in Names :
            Options_has(options, n) => Options_has(options', n)]_vars

C4_Witness ==
    /\ last.op = "has"
    /\ last.ret = Some("true")
    /\ \E e \in options : e.name = last.name /\ e.value.type_id # "i32"
    /\ \E n \in Names : ~Options_has(options, n)

(***************************************************************************)
(* C5: when n holds a T, writing w through the reference get_mut::<T>(n)   *)
(* returned makes get::<T>(n) and get_ref::<T>(n) yield w; the call        *)
(* changes neither the key set nor any other entry.                        *)
(***************************************************************************)
C5_GetMut ==
    [][last'.op = "get_mut" =>
        /\ Options_get(options, last'.name, last'.kind) # None =>
              /\ Options_get(options', last'.name, last'.kind) = Some(last'.data)
              /\ Options_get_ref(options', last'.name, last'.kind) = Some(last'.data)
        /\ Keys(options') = Keys(options)
        /\ \A m \in Names \ {last'.name} :
              HashMap_get(options', m) = HashMap_get(options, m)]_vars

C5_Witness ==
    /\ last.op = "get_mut"
    /\ last.ret # None
    /\ last.ret # Some(last.data)
    /\ Options_get(options, last.name, last.kind) = Some(last.data)
    /\ Cardinality(options) >= 2

(***************************************************************************)
(* C6: names(), run to its end, yields exactly the names that were passed  *)
(* to set, each once, which are the keys of the store as it stands; iter() *)
(* yields entries of the same names, each once.                            *)
(***************************************************************************)
C6_Names ==
    (Finished("names") \/ Finished("iter")) =>
        /\ {YieldedNames[i] : i \in 1..Len(YieldedNames)} = passed
        /\ {YieldedNames[i] : i \in 1..Len(YieldedNames)} = Keys(options)
        /\ \A i, j \in 1..Len(YieldedNames) :
              YieldedNames[i] = YieldedNames[j] => i = j
        /\ {iterator.yielded[i] : i \in 1..Len(iterator.yielded)} = options

C6_Witness ==
    /\ Finished("names")
    /\ Len(YieldedNames) = 3
    /\ {YieldedNames[i] : i \in 1..3} = {"a", "b", "c"}

(***************************************************************************)
(* C7: get, get_ref and get_mut have one failure outcome, absent: what     *)
(* they return is absent or a value; a name never passed to set and a name *)
(* holding another type both get absent; a call that returned absent left  *)
(* the store as it was; and set can always be called.                      *)
(***************************************************************************)
C7_OneFailure ==
    /\ [](last.op \in Accessors =>
            /\ last.ret \in Outcomes
            /\ last.name \notin passed => last.ret = None
            /\ (\E e \in options :
                    e.name = last.name /\ e.value.type_id # last.kind)
                  => last.ret = None)
    /\ [](Free =>
            \A n \in Names : \A T \in TypeIds : \A x \in Data(T) :
                ENABLED Set(n, T, x))
    /\ [][(last'.op \in Accessors /\ last'.ret = None) =>
            options' = options]_vars

C7_Witness ==
    /\ last.op = "get_mut"
    /\ last.ret = None
    /\ last.name \notin passed
    /\ options # {}

(***************************************************************************)
(* C8: reads are idempotent.  What get or get_ref returned is what the     *)
(* same call returns on the store as the call left it; a call that repeats *)
(* the call before it returns the same; and get, get_ref, has, names and   *)
(* iter leave the store as it was.                                         *)
(***************************************************************************)
C8_ReadsIdempotent ==
    /\ [](/\ last.op = "get" =>
               last.ret = Options_get(options, last.name, last.kind)
          /\ last.op = "get_ref" =>
               last.ret = Options_get_ref(options, last.name, last.kind))
    /\ [][last'.repeat => last'.ret = last.ret]_vars
    /\ [][last'.op \in {"get", "get_ref", "has", "names", "iter"} =>
            options' = options]_vars

C8_Witness ==
    /\ last.op = "get"
    /\ last.repeat
    /\ last.ret # None

(***************************************************************************)
(* C9: Value::set replaces contents and type tag whatever the cell held.   *)
(* When a loop over iter_mut that calls set(w), w of type W, on every      *)
(* value has ended, get_ref::<W>(n) yields w for every name n that was in  *)
(* the store, a request for the type a name held before, when not W,       *)
(* yields absent, and the names are those of before the loop.              *)
(***************************************************************************)
C9_IterMutSet ==
    Finished("iter_mut") =>
        LET W == iterator.body[1].kind
            w == iterator.body[1].data
        IN /\ Keys(options) = iterator.names0
           /\ \A n \in iterator.names0 :
                 /\ Options_get_ref(options, n, W) = Some(w)
                 /\ \A U \in TypeIds \ {W} : Options_get_ref(options, n, U) = None
           /\ \A i \in 1..Len(iterator.yielded) :
                 LET e == iterator.yielded[i]
                 IN /\ e.name \in iterator.names0
                    /\ e.value.type_id # W =>
                          Options_get_ref(options, e.name, e.value.type_id) = None

C9_Witness ==
    /\ Finished("iter_mut")
    /\ Len(iterator.yielded) >= 2
    /\ \E i \in 1..Len(iterator.yielded) :
          iterator.yielded[i].value.type_id # iterator.body[1].kind
    /\ \A e \in options : e.value = Value_new(iterator.body[1].kind, iterator.body[1].data)

(***************************************************************************)
(* C10: set(n, v) changes the entry of n only: every other name is present *)
(* or not as before, with the value and type of before, and the keys       *)
(* after are the keys before and n.  So set(a, x).set(b, y) with a # b     *)
(* leaves the store that the two calls leave in the other order (the step  *)
(* is the call set(a, x), and set(b, y) ranges over the calls chained on). *)
(***************************************************************************)
C10_SetFrame ==
    [][last'.op = "set" =>
        /\ Keys(options') = Keys(options) \cup {last'.name}
        /\ \A m \in Names \ {last'.name} :
              /\ Options_has(options', m) <=> Options_has(options, m)
              /\ HashMap_get(options', m) = HashMap_get(options, m)
        /\ \A b \in Names \ {last'.name} : \A U \in TypeIds : \A y \in Data(U) :
              Options_set(options', b, U, y)
                  = Options_set(Options_set(options, b, U, y),
                                last'.name, last'.kind, last'.data)]_vars

C10_Witness ==
    /\ last.op = "set"
    /\ last.dropped = None
    /\ Cardinality(options) >= 3

====
